---- MODULE Spec2Model ----
(***************************************************************************)
(* etl-drone-sense: one poll cycle of Task.control() (src/task.ts).        *)
(*                                                                         *)
(* control() reads its environment, fetches the vendor's drone list,       *)
(* validates it as an array of DroneSenseLocation, turns every record into *)
(* one feature and submits the collection.                                 *)
(*                                                                         *)
(* JavaScript objects are functions from field names to values; a field    *)
(* that is absent is a name outside the DOMAIN, and reading it gives       *)
(* Undefined, as in JavaScript.                                            *)
(***************************************************************************)
EXTENDS Integers, Sequences, FiniteSets, TLC

VARIABLES
    pc,         \* where control() stands: env, fetch, typed, loop, done, error
    layer,      \* the layer's environment as configured (input of this.env)
    response,   \* what the vendor endpoint answers in this cycle
    env,        \* const env      (task.ts:105)
    droneres,   \* const droneres (task.ts:113): the body of the response
    records,    \* const records  (task.ts:119)
    idx,        \* position of the for..of iterator (task.ts:123), 1-based
    fc,         \* const fc       (task.ts:107)
    submitted,  \* the collections handed to this.submit, in order
    trace,      \* history: the fetch, transform and submit events, in order
    log,        \* diagnostic output of typed() when verbose
    prev,       \* history: the inputs and outcome of the previous invocation
    bcall       \* a call of calculateBearing: its arguments and local values

vars == <<pc, layer, response, env, droneres, records, idx, fc, submitted,
          trace, log, prev, bcall>>

(***************************************************************************)
(* Bounds                                                                  *)
(***************************************************************************)
\* longest record array the vendor returns
MaxRecords == 2
\* longest sensors list of a record given to the transformer
MaxSensors == 2
\* fixed-point resolution of a bearing: units per degree.  One unit stands
\* for a deviation far below the spacing of doubles near 360.
Scale == 4

(***************************************************************************)
(* JavaScript values                                                       *)
(***************************************************************************)
Undefined == "<undefined>"
EmptyObject == [k \in {} |-> k]

\* obj[k], Undefined when the property is absent
Field(obj, k) == IF k \in DOMAIN obj THEN obj[k] ELSE Undefined

\* {k: v} when v is given, {} otherwise (an optional property of the input)
Opt(k, v) == IF v = Undefined THEN EmptyObject ELSE (k :> v)

\* !v for a value that is a string or undefined
Falsy(v) == v = Undefined \/ v = ""

\* a % n of JavaScript: the remainder takes the sign of the dividend
JsRem(a, n) == IF a >= 0 THEN a % n ELSE -((-a) % n)

Sign(n) == IF n > 0 THEN 1 ELSE IF n < 0 THEN -1 ELSE 0
Abs(n) == IF n < 0 THEN -n ELSE n

(***************************************************************************)
(* calculateBearing and calculateDistance, on points whose coordinates are *)
(* multiples of 90 degrees.                                                *)
(*                                                                         *)
(* In doubles pi/2 is not exact, and Math.cos(90 * Math.PI / 180) is       *)
(* e = 6.1e-17, not 0.  A double is kept here as c * e^o, its leading      *)
(* term, and u, the number of places in the last digit by which it is off  *)
(* the double nearest to that term (positive: larger in magnitude,         *)
(* negative: smaller, 0: it is that double): [c |-> 1, o |-> 0, u |-> 0]   *)
(* is 1, [c |-> 2, o |-> 1, u |-> 0] is 2e = Math.sin(Math.PI).  This      *)
(* keeps what Math.atan2 depends on: the signs, the orders of magnitude,   *)
(* and whether two values of the same order are equal.                     *)
(***************************************************************************)
Num(c, o) ==
    IF c = 0 THEN [c |-> 0, o |-> 0, u |-> 0] ELSE [c |-> c, o |-> o, u |-> 0]
Zero == Num(0, 0)
Neg(a) == [a EXCEPT !.c = -a.c]

\* the places by which a * b is off its term.  A factor of order 0 that is on
\* its term is a power of two, and scales the other exactly.  A factor that
\* is one place above a power of two, or one or two below it, is off by
\* 2^-53 or 2^-52 of its value; at a power of e, where a place is between
\* 2^-52 / 1.5 and 2^-52 of the value, that is one place.  Two factors that
\* are on their terms give a product on its term, except that e * e in
\* doubles lies 0.22 place below e^2, and the product of two values of that
\* order 0.54 place below e^4: it rounds to one place below.
MulPlaces(a, b) ==
    IF a.o = 0 /\ a.u = 0 THEN b.u
    ELSE IF b.o = 0 /\ b.u = 0 THEN a.u
    ELSE IF a.u # 0 \/ b.u # 0 THEN Sign(a.u + b.u)
    ELSE IF a.o = 2 /\ b.o = 2 THEN -1
    ELSE 0

Mul(a, b) ==
    IF a.c * b.c = 0 THEN Zero
    ELSE [c |-> a.c * b.c, o |-> a.o + b.o, u |-> MulPlaces(a, b)]

\* a - b.  Terms of the same order subtract exactly.  When b is of the next
\* order, the double nearest to a - b is a itself if b is less than half the
\* spacing of the doubles at a, and a's neighbour otherwise; for a = e or -e,
\* the one such difference on these points, that spacing is 3.3 e^2.
Sub(a, b) ==
    IF a.c = 0 THEN Neg(b)
    ELSE IF b.c = 0 THEN a
    ELSE IF a.o > b.o THEN Neg(b)
    ELSE IF a.o = b.o THEN Num(a.c - b.c, a.o)
    ELSE IF b.o = a.o + 1 /\ Abs(b.c) >= 2
         THEN [a EXCEPT !.u = IF Sign(a.c) = Sign(b.c) THEN -1 ELSE 1]
         ELSE a

\* Math.sin(d * Math.PI / 180), d a multiple of 90 in -360..360
SinD(d) ==
    CASE d = 0 -> Zero
      [] d = 90 -> Num(1, 0)
      [] d = 180 -> Num(2, 1)
      [] d = 270 -> Num(-1, 0)
      [] d = 360 -> Num(-4, 1)
      [] d = -90 -> Num(-1, 0)
      [] d = -180 -> Num(-2, 1)
      [] d = -270 -> Num(1, 0)
      [] d = -360 -> Num(4, 1)

\* Math.cos(d * Math.PI / 180), d a multiple of 90 in -360..360
CosD(d) ==
    CASE Abs(d) = 0 -> Num(1, 0)
      [] Abs(d) = 90 -> Num(1, 1)
      [] Abs(d) = 180 -> Num(-1, 0)
      [] Abs(d) = 270 -> Num(-3, 1)
      [] Abs(d) = 360 -> Num(1, 0)

\* atan2(x, y) for |x| = 1 and y = yc * e, as the deviation from 90 degrees
\* of the magnitude of the result.  The double pi/2 lies e below pi/2, so the exact
\* angle pi/2 - (y/x) is that double for y/x = e, and rounds to it up to
\* half the spacing there (1.8 e) on either side.
NearRightAngle(yc) ==
    IF yc >= 3 THEN -1 ELSE IF yc <= -1 THEN 1 ELSE 0

\* Math.atan2(x, y) * 180 / Math.PI, in units of 1/Scale degree: a whole
\* number of degrees, one unit more or less when the double is not that
\* whole number.  The result lies in -180..180 degrees.
Atan2Deg(x, y) ==
    CASE x.c = 0 /\ y.c = 0 -> 0
      [] x.c = 0 /\ y.c > 0 -> 0
      [] x.c = 0 /\ y.c < 0 -> 180 * Scale
      [] x.c # 0 /\ y.c = 0 -> Sign(x.c) * 90 * Scale
      [] x.c # 0 /\ y.c > 0 /\ x.o > y.o -> Sign(x.c)
      [] x.c # 0 /\ y.c < 0 /\ x.o > y.o -> Sign(x.c) * 180 * Scale
      [] Abs(x.c) = 1 /\ y.c # 0 /\ x.o + 1 = y.o ->
            Sign(x.c) * (90 * Scale + NearRightAngle(y.c))
      [] x.c # 0 /\ y.c > 0 /\ x.o = y.o /\ Abs(x.c) = Abs(y.c) ->
            Sign(x.c) * (45 * Scale - y.u)
      [] x.c # 0 /\ y.c < 0 /\ x.o = y.o /\ Abs(x.c) = Abs(y.c) ->
            Sign(x.c) * 135 * Scale

\* a + b in doubles, for a sum between 180 and 540: the doubles there are
\* spaced wider than one unit, and the sum is rounded to the nearest of them
\* (whole degrees here)
FAdd(a, b) == ((2 * (a + b) + Scale) \div (2 * Scale)) * Scale

BearingX(lat1, lon1, lat2, lon2) == Mul(SinD(lon2 - lon1), CosD(lat2))

BearingY(lat1, lon1, lat2, lon2) ==
    Sub(Mul(CosD(lat1), SinD(lat2)),
        Mul(Mul(SinD(lat1), CosD(lat2)), CosD(lon2 - lon1)))

\* a variant that leaves a negative bearing as it is
NormalizeNoShift(bearing) == JsRem(bearing, 360 * Scale)

\* return (bearing + 360) % 360
Normalize(bearing) == JsRem(FAdd(bearing, 360 * Scale), 360 * Scale)

calculateBearing(lat1, lon1, lat2, lon2) ==
    Normalize(Atan2Deg(BearingX(lat1, lon1, lat2, lon2),
                       BearingY(lat1, lon1, lat2, lon2)))

(***************************************************************************)
(* calculateDistance (task.ts:37-50), on the same points.  The result is   *)
(* in decimetres, rounded.                                                 *)
(***************************************************************************)
\* const R = 6371000
R == 6371000

\* Math.sin((d * Math.PI / 180) / 2) ** 2, d a multiple of 90 in -360..360,
\* in halves: [c |-> 1, o |-> 0] is 1/2.  The square of Math.sin(Math.PI / 4)
\* is 0.4999999999999999, two places below 1/2, and that of
\* Math.sin(3 * Math.PI / 4) is 0.5000000000000001, one place above.
SinSqHalfD(d) ==
    CASE Abs(d) = 0 -> Zero
      [] Abs(d) = 90 -> [c |-> 1, o |-> 0, u |-> -2]
      [] Abs(d) = 180 -> Num(2, 0)
      [] Abs(d) = 270 -> [c |-> 1, o |-> 0, u |-> 1]
      [] Abs(d) = 360 -> Num(8, 2)

\* a + b for the two terms of the haversine, neither negative, a of order 0
\* when it is not 0.  Below 1/2 the doubles are 0.91 e apart: e/2 and e both
\* move a double there to the next one up.  From 1/2 on they are 1.8 e
\* apart, from 1 on 3.6 e: e/2 moves nothing, and e moves a double between
\* 1/2 and 1 one place up.  A term of the order of e^2 moves nothing.
Add(a, b) ==
    CASE a.c = 0 -> b
      [] a.c # 0 /\ b.c = 0 -> a
      [] a.c # 0 /\ b.c > 0 /\ b.o > a.o + 1 -> a
      [] a.c = 2 /\ b.c \in {1, 2} /\ b.o = a.o + 1 -> a
      [] a.c = 1 /\ b.c \in {1, 2} /\ b.o = a.o + 1 ->
            [a EXCEPT !.u = IF a.u < 0 \/ b.c = 2 THEN a.u + 1 ELSE a.u]

\* const a = ..., in halves
HaversineA(lat1, lon1, lat2, lon2) ==
    Add(SinSqHalfD(lat2 - lat1),
        Mul(Mul(CosD(lat1), CosD(lat2)), SinSqHalfD(lon2 - lon1)))

\* const c = 2 * Math.atan2(Math.sqrt(a), Math.sqrt(1 - a)), in degrees, for
\* a in halves: a = 1/2 gives a quarter turn, a = 1 a half turn; an a of the
\* order of e^2 gives an arc of the order of e, which is 0 once rounded.
\* The last places of a move the arc by less than 1e-8 m.
HaversineArc(a) ==
    CASE a.c = 0 -> 0
      [] a.c > 0 /\ a.o > 0 -> 0
      [] a.c = 1 /\ a.o = 0 -> 90
      [] a.c = 2 /\ a.o = 0 -> 180

\* R * Math.PI in centimetres, with Math.PI = 3.14159 + 0.0000026536
RTimesPi == (R \div 1000) * 314159 + ((R \div 1000) * 26536) \div 100000

\* return R * c, for c a multiple of 90 degrees, in decimetres
ArcLength(deg) == ((RTimesPi \div 2) * (deg \div 90) + 5) \div 10

calculateDistance(lat1, lon1, lat2, lon2) ==
    ArcLength(HaversineArc(HaversineA(lat1, lon1, lat2, lon2)))

(***************************************************************************)
(* The vendor's records (DroneSenseLocation, task.ts:52-72)                *)
(***************************************************************************)
RtspUrls == {Undefined, "", "rtsp://a", "rtsp://b"}
VideoUrls == {Undefined, "x", "y"}

Sensor(rtsp, video) ==
    [id |-> "s", name |-> "cam"] @@ Opt("video_url", video)
                                 @@ Opt("rtsp_url", rtsp)

Sensors == {Sensor(r, v) : r \in RtspUrls, v \in VideoUrls}

SeqsUpTo(S, n) == UNION {[1..k -> S] : k \in 0..n}

DroneRecord(id, lat, lon, sLat, sLng, sensors) ==
    [id |-> id, callSign |-> "UAS-" \o id, missionName |-> "m",
     model |-> "M30", latitude |-> lat, longitude |-> lon,
     lastUpdate |-> 1700, altitudeAgl |-> 120, altitudeMsl |-> 350,
     speed |-> 7, heading |-> 270, spoiLat |-> sLat, spoiLng |-> sLng,
     sensors |-> sensors]

Ids == {"d1", "d2"}
Latitudes == {0, 90}
Longitudes == {0, -90}
SpoiValues == {-90, 0, 90}

\* the records given to the transformer on its own
AllRecords ==
    {DroneRecord(id, lat, lon, sLat, sLng, ss) :
        id \in Ids, lat \in Latitudes, lon \in Longitudes,
        sLat \in SpoiValues, sLng \in SpoiValues,
        ss \in SeqsUpTo(Sensors, MaxSensors)}

\* the records of a whole cycle: both ids, with and without a stream, with
\* and without a viewer page, with and without a sensor point of interest
CycleSensors ==
    {<<>>, <<Sensor("rtsp://a", "x")>>, <<Sensor("rtsp://b", Undefined)>>}

CycleRecords ==
    {DroneRecord(id, 90, -90, s, s, ss) :
        id \in Ids, s \in {0, 90}, ss \in CycleSensors}

RequiredFields ==
    {"id", "callSign", "missionName", "model", "latitude", "longitude",
     "lastUpdate", "altitudeAgl", "altitudeMsl", "speed", "heading",
     "spoiLat", "spoiLng", "sensors"}

\* a record the vendor sends without its latitude
Malformed ==
    [k \in RequiredFields \ {"latitude"} |->
        DroneRecord("d1", 0, 0, 0, 0, <<>>)[k]]

\* Value.Check(DroneSenseLocation, item), for items whose present fields
\* have the right types
IsDroneSenseLocation(item) == RequiredFields \subseteq DOMAIN item

(***************************************************************************)
(* The record transformer: the body of the for loop (task.ts:124-211)      *)
(***************************************************************************)
\* a variant with latitude and longitude swapped
CoordinatesLatFirst(record) ==
    <<record.latitude, record.longitude, record.altitudeAgl>>

\* coordinates: [ record.longitude, record.latitude, record.altitudeAgl ]
Coordinates(record) ==
    <<record.longitude, record.latitude, record.altitudeAgl>>

\* const feat = { ... }  (task.ts:124-141)
NewFeature(record) ==
    [id |-> record.id,
     type |-> "Feature",
     properties |->
        [type |-> "a-f-A-M-H-Q", callsign |-> record.callSign,
         speed |-> record.speed, course |-> record.heading,
         links |-> <<>>, metadata |-> record],
     geometry |-> [type |-> "Point", coordinates |-> Coordinates(record)]]

\* feat.properties.video = { ... }  (task.ts:148-165)
Video(record, sensor) ==
    [uid |-> record.id,
     sensor |-> record.callSign \o "-camera",
     url |-> Field(sensor, "rtsp_url"),
     connection |->
        [uid |-> record.id, networkTimeout |-> 12000, path |-> "",
         protocol |-> "raw", bufferTime |-> -1,
         address |-> Field(sensor, "rtsp_url"), port |-> -1, roverPort |-> -1,
         rtspReliable |-> 0, ignoreEmbeddedKLV |-> FALSE,
         alias |-> record.callSign]]

\* the object pushed to feat.properties.links  (task.ts:167-173)
Link(record, sensor) ==
    [uid |-> record.id, relation |-> "r-u", type |-> "text/html",
     url |-> Field(sensor, "video_url"), remarks |-> "DroneSense Viewer"]

\* a variant that looks for a viewer page instead of a stream
SkipSensorByVideo(sensor) == Falsy(Field(sensor, "video_url"))

\* if (!sensor.rtsp_url) continue;
SkipSensor(sensor) == Falsy(Field(sensor, "rtsp_url"))

\* the body of the inner loop past the continue, up to the break
AttachVideo(feat, record, sensor) ==
    [feat EXCEPT !.properties =
        ("video" :> Video(record, sensor))
            @@ [@ EXCEPT !.links = Append(@, Link(record, sensor))]]

\* for (const sensor of record.sensors), from the j-th sensor on
RECURSIVE ScanFrom(_, _, _)
ScanFrom(feat, record, j) ==
    IF j > Len(record.sensors) THEN feat
    ELSE IF SkipSensor(record.sensors[j]) THEN ScanFrom(feat, record, j + 1)
    ELSE AttachVideo(feat, record, record.sensors[j])

\* a variant without the break: every sensor with a stream is attached
RECURSIVE ScanAllFrom(_, _, _)
ScanAllFrom(feat, record, j) ==
    IF j > Len(record.sensors) THEN feat
    ELSE IF SkipSensor(record.sensors[j])
         THEN ScanAllFrom(feat, record, j + 1)
         ELSE ScanAllFrom(AttachVideo(feat, record, record.sensors[j]),
                          record, j + 1)

ScanSensorsNoBreak(feat, record) == ScanAllFrom(feat, record, 1)

\* if (record.sensors.length > 0) { for ... }  (task.ts:143-177)
ScanSensors(feat, record) ==
    IF Len(record.sensors) > 0 THEN ScanFrom(feat, record, 1) ELSE feat

\* a variant that asks for one of the two to be non-zero
HasSpoiEither(record) == record.spoiLat # 0 \/ record.spoiLng # 0

\* record.spoiLat !== 0 && record.spoiLng !== 0
HasSpoi(record) == record.spoiLat # 0 /\ record.spoiLng # 0

\* a number literal with a fraction: 0.5 is Decimal(1, 2)
Decimal(n, d) == [num |-> n, den |-> d]

\* feat.properties.sensor = { ... }  (task.ts:182-208).  The azimuth is in
\* units of 1/Scale degree, the range in decimetres.
Cone(record) ==
    [azimuth |-> calculateBearing(record.latitude, record.longitude,
                                  record.spoiLat, record.spoiLng),
     fov |-> 45,
     vfov |-> 45,
     range |-> calculateDistance(record.latitude, record.longitude,
                                 record.spoiLat, record.spoiLng),
     elevation |-> 0,
     roll |-> 0,
     displayMagneticReference |-> 0,
     strokeColor |-> -16777216,
     strokeWeight |-> Decimal(1, 2),
     fovRed |-> 1,
     fovGreen |-> Decimal(1, 2),
     fovBlue |-> 0,
     fovAlpha |-> Decimal(3, 10),
     rangeLines |-> 100,
     rangeLineStrokeColor |-> -16777216,
     rangeLineStrokeWeight |-> 1]

\* if (record.spoiLat !== 0 && record.spoiLng !== 0) { ... }
AttachCone(feat, record) ==
    IF HasSpoi(record)
    THEN [feat EXCEPT !.properties = ("sensor" :> Cone(record)) @@ @]
    ELSE feat

TransformRecord(record) ==
    AttachCone(ScanSensors(NewFeature(record), record), record)

(***************************************************************************)
(* The environment and the vendor's answer                                 *)
(***************************************************************************)
Tokens == {Undefined, "", "tok"}
DebugSettings == {"absent", "on", "off"}

DebugField(d) ==
    CASE d = "absent" -> EmptyObject
      [] d = "on" -> ("DEBUG" :> TRUE)
      [] d = "off" -> ("DEBUG" :> FALSE)

\* the layer's environment, as the operator of the layer configured it
Layers == {Opt("DroneSenseToken", t) @@ DebugField(d) :
              t \in Tokens, d \in DebugSettings}

\* this.env(Environment) checks the stored environment against the schema
\* (task.ts:74-82): DroneSenseToken is a required string, and any string,
\* the empty one too, is a Type.String()
EnvValid(l) == "DroneSenseToken" \in DOMAIN l

\* the environment with the schema's default for DEBUG
EnvOf(l) ==
    [DroneSenseToken |-> l.DroneSenseToken,
     DEBUG |-> IF "DEBUG" \in DOMAIN l THEN l.DEBUG ELSE FALSE]

\* the JSON documents the endpoint answers with: an array of records, some
\* of them malformed, or an error document that is not an array
Bodies ==
    {[json |-> "array", items |-> items] :
        items \in SeqsUpTo(CycleRecords \cup {Malformed}, MaxRecords)}
    \cup {[json |-> "object", items |-> <<>>]}

\* the fetch either throws (no connection) or resolves with a body
Responses ==
    {[kind |-> "neterr", body |-> EmptyObject]}
    \cup {[kind |-> "http", body |-> b] : b \in Bodies}

\* a variant that keeps the well-formed records of a bad array
typedLenient(body, verbose) ==
    [ok |-> body.json = "array",
     value |-> SelectSeq(body.items, IsDroneSenseLocation),
     printed |-> IF verbose THEN <<body>> ELSE <<>>]

\* a variant in which the verbose run stops after printing
typedVerboseStops(body, verbose) ==
    [ok |-> /\ body.json = "array"
            /\ \A i \in 1..Len(body.items) :
                   IsDroneSenseLocation(body.items[i])
            /\ ~verbose,
     value |-> body.items,
     printed |-> IF verbose THEN <<body>> ELSE <<>>]

\* droneres.typed(Type.Array(DroneSenseLocation), { verbose })
\* (task.ts:119-121): the body is accepted whole or rejected whole; verbose
\* only prints
typed(body, verbose) ==
    [ok |-> /\ body.json = "array"
            /\ \A i \in 1..Len(body.items) :
                   IsDroneSenseLocation(body.items[i]),
     value |-> body.items,
     printed |-> IF verbose THEN <<body>> ELSE <<>>]

(***************************************************************************)
(* control()  (task.ts:104-215)                                            *)
(***************************************************************************)
NoCall == [at |-> "idle"]

InitRun ==
    /\ pc = "env"
    /\ env = EmptyObject
    /\ droneres = EmptyObject
    /\ records = <<>>
    /\ idx = 1
    /\ fc = EmptyObject
    /\ submitted = <<>>
    /\ trace = <<>>
    /\ log = <<>>

Init ==
    /\ layer \in Layers
    /\ response \in Responses
    /\ InitRun
    /\ prev = <<>>
    /\ bcall = NoCall

\* const env = await this.env(Environment); const fc = { ... }
EnvOk ==
    /\ pc = "env"
    /\ EnvValid(layer)
    /\ env' = EnvOf(layer)
    /\ fc' = [type |-> "FeatureCollection", features |-> <<>>]
    /\ pc' = "fetch"
    /\ UNCHANGED <<layer, response, droneres, records, idx, submitted,
                   trace, log, prev, bcall>>

\* this.env rejects: control() rejects before line 107
EnvThrows ==
    /\ pc = "env"
    /\ ~EnvValid(layer)
    /\ pc' = "error"
    /\ UNCHANGED <<layer, response, env, droneres, records, idx, fc,
                   submitted, trace, log, prev, bcall>>

FetchEvent == [op |-> "fetch", key |-> env.DroneSenseToken, index |-> 0]

\* const droneres = await fetch(url, { headers })  (task.ts:112-117)
FetchOk ==
    /\ pc = "fetch"
    /\ response.kind = "http"
    /\ trace' = Append(trace, FetchEvent)
    /\ droneres' = response.body
    /\ pc' = "typed"
    /\ UNCHANGED <<layer, response, env, records, idx, fc, submitted, log,
                   prev, bcall>>

\* the request was sent and fetch rejected
FetchThrows ==
    /\ pc = "fetch"
    /\ response.kind = "neterr"
    /\ trace' = Append(trace, FetchEvent)
    /\ pc' = "error"
    /\ UNCHANGED <<layer, response, env, droneres, records, idx, fc,
                   submitted, log, prev, bcall>>

\* const records = await droneres.typed(...)  (task.ts:119-121)
TypedOk ==
    /\ pc = "typed"
    /\ typed(droneres, env.DEBUG).ok
    /\ records' = typed(droneres, env.DEBUG).value
    /\ log' = log \o typed(droneres, env.DEBUG).printed
    /\ idx' = 1
    /\ pc' = "loop"
    /\ UNCHANGED <<layer, response, env, droneres, fc, submitted, trace,
                   prev, bcall>>

TypedThrows ==
    /\ pc = "typed"
    /\ ~typed(droneres, env.DEBUG).ok
    /\ log' = log \o typed(droneres, env.DEBUG).printed
    /\ pc' = "error"
    /\ UNCHANGED <<layer, response, env, droneres, records, idx, fc,
                   submitted, trace, prev, bcall>>

\* a variant of the loop test that leaves after the first record
MoreRecordsFirstOnly(i, recs) == i <= Len(recs) /\ i <= 1

\* for (const record of records): is there a next record
MoreRecords(i, recs) == i <= Len(recs)

\* one pass of the loop body, ending with fc.features.push(feat)
LoopBody ==
    /\ pc = "loop"
    /\ MoreRecords(idx, records)
    /\ fc' = [fc EXCEPT !.features =
                 Append(@, TransformRecord(records[idx]))]
    /\ trace' = Append(trace, [op |-> "transform", key |-> records[idx].id,
                               index |-> idx])
    /\ idx' = idx + 1
    /\ UNCHANGED <<pc, layer, response, env, droneres, records, submitted,
                   log, prev, bcall>>

\* await this.submit(fc)  (task.ts:214)
Submit ==
    /\ pc = "loop"
    /\ ~MoreRecords(idx, records)
    /\ submitted' = Append(submitted, fc)
    /\ trace' = Append(trace, [op |-> "submit", key |-> "",
                               index |-> Len(fc.features)])
    /\ pc' = "done"
    /\ UNCHANGED <<layer, response, env, droneres, records, idx, fc, log,
                   prev, bcall>>

Next ==
    \/ EnvOk
    \/ EnvThrows
    \/ FetchOk
    \/ FetchThrows
    \/ TypedOk
    \/ TypedThrows
    \/ LoopBody
    \/ Submit

Spec == Init /\ [][Next]_vars

(***************************************************************************)
(* The transformer on its own: control() stands at the loop with one       *)
(* validated record, any record of AllRecords.                             *)
(***************************************************************************)
InitTransform ==
    /\ layer = Opt("DroneSenseToken", "tok") @@ DebugField("absent")
    /\ env = EnvOf(layer)
    /\ \E r \in AllRecords :
          /\ response = [kind |-> "http",
                         body |-> [json |-> "array", items |-> <<r>>]]
          /\ records = <<r>>
    /\ droneres = response.body
    /\ idx = 1
    /\ fc = [type |-> "FeatureCollection", features |-> <<>>]
    /\ submitted = <<>>
    /\ trace = <<FetchEvent>>
    /\ log = <<>>
    /\ pc = "loop"
    /\ prev = <<>>
    /\ bcall = NoCall

NextTransform ==
    \/ LoopBody
    \/ Submit

SpecTransform == InitTransform /\ [][NextTransform]_vars

(***************************************************************************)
(* Two invocations on the same token and the same answer of the vendor,    *)
(* with any two settings of DEBUG.                                         *)
(***************************************************************************)
Finished == pc \in {"done", "error"}

\* the scheduler invokes control() again; the first run is remembered
Invoke ==
    /\ Finished
    /\ prev = <<>>
    /\ prev' = <<[layer |-> layer, response |-> response, outcome |-> pc,
                  submitted |-> submitted, trace |-> trace]>>
    /\ \E d \in DebugSettings :
          layer' = Opt("DroneSenseToken", Field(layer, "DroneSenseToken"))
                       @@ DebugField(d)
    /\ pc' = "env"
    /\ env' = EmptyObject
    /\ droneres' = EmptyObject
    /\ records' = <<>>
    /\ idx' = 1
    /\ fc' = EmptyObject
    /\ submitted' = <<>>
    /\ trace' = <<>>
    /\ log' = <<>>
    /\ UNCHANGED <<response, bcall>>

NextDebug ==
    \/ Next
    \/ Invoke

SpecDebug == Init /\ [][NextDebug]_vars

(***************************************************************************)
(* calculateBearing on its own, step by step (task.ts:14-27)               *)
(***************************************************************************)
BearingLats == {-90, 0, 90}
BearingLons == {-180, -90, 0, 90, 180}

InitBearing ==
    /\ bcall \in [at : {"entry"}, lat1 : BearingLats, lon1 : BearingLons,
                  lat2 : BearingLats, lon2 : BearingLons]
    /\ pc = "idle"
    /\ layer = EmptyObject
    /\ response = [kind |-> "neterr", body |-> EmptyObject]
    /\ env = EmptyObject
    /\ droneres = EmptyObject
    /\ records = <<>>
    /\ idx = 1
    /\ fc = EmptyObject
    /\ submitted = <<>>
    /\ trace = <<>>
    /\ log = <<>>
    /\ prev = <<>>

NotControl ==
    UNCHANGED <<pc, layer, response, env, droneres, records, idx, fc,
                submitted, trace, log, prev>>

\* const x = ...; const y = ...;  (task.ts:15-21)
BearingTerms ==
    /\ bcall.at = "entry"
    /\ bcall' = [x |-> BearingX(bcall.lat1, bcall.lon1,
                                bcall.lat2, bcall.lon2),
                 y |-> BearingY(bcall.lat1, bcall.lon1,
                                bcall.lat2, bcall.lon2)]
                 @@ [bcall EXCEPT !.at = "atan2"]
    /\ NotControl

\* const bearing = Math.atan2(x, y) * 180 / Math.PI;
BearingAtan2 ==
    /\ bcall.at = "atan2"
    /\ bcall' = [bearing |-> Atan2Deg(bcall.x, bcall.y)]
                 @@ [bcall EXCEPT !.at = "normalize"]
    /\ NotControl

\* return (bearing + 360) % 360;
BearingReturn ==
    /\ bcall.at = "normalize"
    /\ bcall' = [result |-> Normalize(bcall.bearing)]
                 @@ [bcall EXCEPT !.at = "return"]
    /\ NotControl

NextBearing ==
    \/ BearingTerms
    \/ BearingAtan2
    \/ BearingReturn

SpecBearing == InitBearing /\ [][NextBearing]_vars

(***************************************************************************)
(* Properties                                                              *)
(***************************************************************************)
\* the positions of the sensors that have a non-empty rtsp_url
Streams(record) ==
    {j \in 1..Len(record.sensors) :
        /\ "rtsp_url" \in DOMAIN record.sensors[j]
        /\ record.sensors[j].rtsp_url # ""}

\* the first of them
FirstStream(record) ==
    CHOOSE j \in Streams(record) : \A k \in Streams(record) : j <= k

\* the records of the vendor's answer, when it is an array of well-formed
\* records
GoodResponse ==
    /\ response.kind = "http"
    /\ response.body.json = "array"
    /\ \A i \in 1..Len(response.body.items) :
           RequiredFields \subseteq DOMAIN response.body.items[i]

\* the features built so far, each with the record it was built from
Built == {<<records[i], fc.features[i]>> : i \in 1..(idx - 1)}

\* C1: when control() has finished, it has submitted one collection whose
\* features are, index by index, the records of the vendor's answer: same
\* length, same id, coordinates [longitude, latitude, altitudeAgl].
C1_OneFeaturePerRecord ==
    pc = "done" =>
        /\ Len(submitted) = 1
        /\ LET items == response.body.items
               feats == submitted[1].features
           IN /\ Len(feats) = Len(items)
              /\ \A i \in 1..Len(items) :
                    /\ feats[i].id = items[i].id
                    /\ feats[i].geometry.coordinates =
                          <<items[i].longitude, items[i].latitude,
                            items[i].altitudeAgl>>

\* two records with different ids, sensors and SPOI were submitted in order
C1_Witness ==
    /\ pc = "done"
    /\ Len(response.body.items) = 2
    /\ response.body.items[1].id = "d2"
    /\ response.body.items[2].id = "d1"
    /\ response.body.items[1].sensors # <<>>
    /\ response.body.items[2].sensors = <<>>
    /\ response.body.items[1].spoiLat = 0
    /\ response.body.items[2].spoiLat # 0
    /\ Len(submitted) = 1
    /\ Len(submitted[1].features) = 2

\* C2: a feature built from a record that has a sensor with a non-empty
\* rtsp_url carries the rtsp_url of the first such sensor as video.url and as
\* video.connection.address, and nothing of any other sensor: every link it
\* has is the one of that sensor.
C2_FirstStreamWins ==
    \A b \in Built :
        LET record == b[1]
            props == b[2].properties
        IN Streams(record) # {} =>
              LET sel == record.sensors[FirstStream(record)]
              IN /\ "video" \in DOMAIN props
                 /\ props.video.url = sel.rtsp_url
                 /\ props.video.connection.address = sel.rtsp_url
                 /\ \A k \in 1..Len(props.links) :
                        props.links[k].url = Field(sel, "video_url")
                 /\ Len(props.links) <= 1

\* a record whose two sensors both have a stream was transformed: the video
\* is the first sensor's
C2_Witness ==
    \E b \in Built :
        /\ Len(b[1].sensors) = 2
        /\ b[1].sensors[1] = Sensor("rtsp://b", "x")
        /\ b[1].sensors[2] = Sensor("rtsp://a", "y")
        /\ b[2].properties.video.url = "rtsp://b"

\* C3 (as claimed): the links list has at most one entry, and has one exactly
\* when the selected sensor also has a video_url, whose value is the entry's
\* url; a selected sensor without video_url leaves the links list empty.
C3_LinkOnlyWithVideoUrl ==
    \A b \in Built :
        LET record == b[1]
            links == b[2].properties.links
            hasViewer == /\ Streams(record) # {}
                         /\ "video_url" \in
                                DOMAIN record.sensors[FirstStream(record)]
        IN /\ Len(links) <= 1
           /\ (Len(links) = 1) <=> hasViewer
           /\ Len(links) = 1 =>
                 links[1].url =
                     record.sensors[FirstStream(record)].video_url

\* C4: a feature built from a record without any non-empty rtsp_url has no
\* video attachment and an empty links list.
C4_NoStreamNoVideo ==
    \A b \in Built :
        Streams(b[1]) = {} =>
            /\ "video" \notin DOMAIN b[2].properties
            /\ b[2].properties.links = <<>>

\* a record with two sensors, one with only a viewer page, one with a viewer
\* page and an empty rtsp_url, was transformed
C4_Witness ==
    \E b \in Built :
        /\ b[1].sensors = <<Sensor(Undefined, "x"), Sensor("", "y")>>
        /\ b[2].properties.links = <<>>

\* C5: a feature carries a sensor (cone) attachment exactly when spoiLat and
\* spoiLng of its record are both non-zero, with or without a video.
C5_ConeIffBothNonZero ==
    \A b \in Built :
        ("sensor" \in DOMAIN b[2].properties)
            <=> (b[1].spoiLat # 0 /\ b[1].spoiLng # 0)

\* a record with spoiLat = 0, spoiLng = 90 and a stream was transformed: it
\* has a video and no cone
C5_Witness ==
    \E b \in Built :
        /\ b[1].spoiLat = 0
        /\ b[1].spoiLng = 90
        /\ "video" \in DOMAIN b[2].properties
        /\ "sensor" \notin DOMAIN b[2].properties

\* C6: when the fetch fails or the answer is not an array of well-formed
\* records, control() never reaches the loop, never finishes normally, and
\* nothing is submitted.
C6_BadResponseNoSubmit ==
    ~GoodResponse =>
        /\ pc \notin {"loop", "done"}
        /\ submitted = <<>>
        /\ \A k \in 1..Len(trace) : trace[k].op # "submit"
        /\ ~(ENABLED Next) => pc = "error"

\* the answer held a well-formed record followed by a malformed one, and
\* control() ended in error
C6_Witness ==
    /\ pc = "error"
    /\ response.kind = "http"
    /\ Len(response.body.items) = 2
    /\ response.body.items[1] \in CycleRecords
    /\ response.body.items[2] = Malformed
    /\ Len(trace) = 1

\* C7 (as claimed): when the token is absent or empty, neither the fetch nor
\* the submission happens.
C7_NoCallWithoutToken ==
    Falsy(Field(layer, "DroneSenseToken")) =>
        /\ trace = <<>>
        /\ submitted = <<>>

\* C8: the events of an invocation are, in this order, one fetch, the
\* transformation of record 1, 2, ..., and one submit; no event stands
\* elsewhere, and a finished invocation has them all.
C8_FetchTransformSubmit ==
    /\ \A k \in 1..Len(trace) :
          /\ k = 1 => trace[k].op = "fetch"
          /\ (1 < k /\ k <= Len(records) + 1) =>
                /\ trace[k].op = "transform"
                /\ trace[k].index = k - 1
                /\ trace[k].key = records[k - 1].id
          /\ k = Len(records) + 2 =>
                /\ k > 1
                /\ trace[k].op = "submit"
                /\ trace[k].index = Len(records)
          /\ k <= Len(records) + 2
    /\ pc = "done" => Len(trace) = Len(records) + 2

\* an invocation on two records has finished
C8_Witness ==
    /\ pc = "done"
    /\ Len(records) = 2
    /\ Len(trace) = 4

\* C9: a second invocation on the same token and the same answer ends as the
\* first did, with the same fetch and the same submitted collection, whatever
\* the two settings of DEBUG are.
C9_DebugChangesNothing ==
    (prev # <<>> /\ Finished
        /\ Field(prev[1].layer, "DroneSenseToken")
              = Field(layer, "DroneSenseToken")
        /\ prev[1].response = response) =>
            /\ prev[1].outcome = pc
            /\ prev[1].submitted = submitted
            /\ prev[1].trace = trace

\* a run with DEBUG on and then a run with DEBUG off both submitted a
\* non-empty collection
C9_Witness ==
    /\ prev # <<>>
    /\ pc = "done"
    /\ "DEBUG" \in DOMAIN prev[1].layer
    /\ prev[1].layer.DEBUG
    /\ "DEBUG" \in DOMAIN layer
    /\ ~layer.DEBUG
    /\ Len(submitted) = 1
    /\ Len(submitted[1].features) = 2
    /\ prev[1].submitted = submitted

\* C10: calculateBearing returns a value v with 0 <= v < 360 (degrees), and
\* 0 for two identical points.
C10_BearingInRange ==
    bcall.at = "return" =>
        /\ 0 <= bcall.result
        /\ bcall.result < 360 * Scale
        /\ (bcall.lat1 = bcall.lat2 /\ bcall.lon1 = bcall.lon2) =>
              bcall.result = 0

\* a call whose atan2 result is just below zero returned 0, not 360
C10_Witness ==
    /\ bcall.at = "return"
    /\ bcall.bearing < 0
    /\ bcall.bearing > -Scale
    /\ bcall.result = 0

====
